---- MODULE Spec2Model ----
(***************************************************************************)
(* Model of translate-recurse (code_translator): the lexical extractor of  *)
(* parser.py, the reconstructor and the file/directory orchestrator of     *)
(* processor.py, and the translate call of translator.py.                  *)
(*                                                                         *)
(* Text is a sequence of Unicode code points; positions are 0-based as in  *)
(* the Python source, sequences are 1-based as in TLA+.                    *)
(***************************************************************************)
EXTENDS Integers, Sequences, FiniteSets, TLC

\* ---------------------------------------------------------------- text

\* The code points the model's inputs are written with.
Ch ==
  [nl |-> 10, sp |-> 32, dq |-> 34, hash |-> 35, sq |-> 39, star |-> 42,
   slash |-> 47, T |-> 84, bs |-> 92, bt |-> 96, a |-> 97, eacute |-> 233,
   kana |-> 12363, zh |-> 20013, hangul |-> 54620]

Min(S) == CHOOSE x \in S : \A y \in S : x <= y

Max(S) == CHOOSE x \in S : \A y \in S : x >= y

\* Python s[i:j] for i, j >= 0.
Slice(s, i, j) ==
  LET lo == IF i < 0 THEN 0 ELSE i
      hi == IF j > Len(s) THEN Len(s) ELSE j
  IN  IF lo >= hi THEN << >> ELSE SubSeq(s, lo + 1, hi)

\* s[i:i+len(pat)] == pat
StartsWith(s, i, pat) ==
  /\ i >= 0
  /\ i + Len(pat) <= Len(s)
  /\ \A k \in 1..Len(pat) : s[i + k] = pat[k]

\* str.find(pat, from): the lowest index >= from where pat occurs, or -1.
Find(s, pat, from) ==
  LET C == {i \in from..(Len(s) - Len(pat)) : StartsWith(s, i, pat)}
  IN  IF C = {} THEN -1 ELSE Min(C)

\* str.rfind(pat, start, end): the highest index in s[start:end], or -1.
RFind(s, pat, start, end) ==
  LET hi == IF end > Len(s) THEN Len(s) ELSE end
      C == {i \in start..(hi - Len(pat)) : StartsWith(s, i, pat)}
  IN  IF C = {} THEN -1 ELSE Max(C)

\* pat in s
Contains(s, pat) == Find(s, pat, 0) # -1

\* str.count('\n') of s[:upto]
CountNl(s, upto) == Cardinality({i \in 1..upto : i <= Len(s) /\ s[i] = Ch.nl})

\* Whitespace as str.strip() sees it.
IsSpace(c) == c \in {9, 10, 11, 12, 13, 28, 29, 30, 31, 32, 133, 160}

LStrip(s) ==
  LET C == {i \in 1..Len(s) : ~IsSpace(s[i])}
  IN  IF C = {} THEN << >> ELSE SubSeq(s, Min(C), Len(s))

Strip(s) ==
  LET C == {i \in 1..Len(s) : ~IsSpace(s[i])}
  IN  IF C = {} THEN << >> ELSE SubSeq(s, Min(C), Max(C))

RECURSIVE SplitLines(_)
\* str.split('\n')
SplitLines(s) ==
  LET i == Find(s, <<Ch.nl>>, 0)
  IN  IF i = -1 THEN <<s>>
      ELSE <<Slice(s, 0, i)>> \o SplitLines(Slice(s, i + 1, Len(s)))

RECURSIVE JoinLines(_)
\* '\n'.join(lines)
JoinLines(lines) ==
  IF Len(lines) = 0 THEN << >>
  ELSE IF Len(lines) = 1 THEN lines[1]
  ELSE lines[1] \o <<Ch.nl>> \o JoinLines(Tail(lines))

\* ------------------------------------------------------------- parser

COMMENT == "comment"

DOCSTRING == "docstring"

STRING_LITERAL == "string_literal"

\* A line pattern  marker(.*)$  with re.MULTILINE.
LinePat(marker) == [kind |-> "line", marker |-> marker]

\* A pattern  open(.*?)close | ...  with re.DOTALL, one group per alternative.
DelimPat(alts) == [kind |-> "delim", alts |-> alts]

\* A string pattern: per alternative the quote, whether the body may hold a
\* newline, and whether backslash escapes are recognised.
StringPat(alts) == [kind |-> "string", alts |-> alts]

Q(quote, nlOk, esc) == [quote |-> quote, nlOk |-> nlOk, esc |-> esc]

D(open, close) == [open |-> open, close |-> close]

SLASH2 == <<Ch.slash, Ch.slash>>

BLOCK == DelimPat(<<D(<<Ch.slash, Ch.star>>, <<Ch.star, Ch.slash>>)>>)

PATTERNS ==
  [python |->
     [line_comment |-> LinePat(<<Ch.hash>>),
      docstring |-> DelimPat(<<D(<<Ch.dq, Ch.dq, Ch.dq>>, <<Ch.dq, Ch.dq, Ch.dq>>),
                               D(<<Ch.sq, Ch.sq, Ch.sq>>, <<Ch.sq, Ch.sq, Ch.sq>>)>>),
      string |-> StringPat(<<Q(Ch.dq, FALSE, TRUE), Q(Ch.sq, FALSE, TRUE)>>)],
   javascript |->
     [line_comment |-> LinePat(SLASH2),
      block_comment |-> BLOCK,
      string |-> StringPat(<<Q(Ch.dq, TRUE, TRUE), Q(Ch.sq, TRUE, TRUE),
                             Q(Ch.bt, TRUE, TRUE)>>)],
   java |->
     [line_comment |-> LinePat(SLASH2),
      block_comment |-> BLOCK,
      javadoc |-> DelimPat(<<D(<<Ch.slash, Ch.star, Ch.star>>, <<Ch.star, Ch.slash>>)>>),
      string |-> StringPat(<<Q(Ch.dq, TRUE, TRUE)>>)],
   go |->
     [line_comment |-> LinePat(SLASH2),
      block_comment |-> BLOCK,
      string |-> StringPat(<<Q(Ch.dq, TRUE, TRUE), Q(Ch.bt, TRUE, FALSE)>>)],
   rust |->
     [line_comment |-> LinePat(SLASH2),
      block_comment |-> BLOCK,
      doc_comment |-> LinePat(<<Ch.slash, Ch.slash, Ch.slash>>),
      string |-> StringPat(<<Q(Ch.dq, TRUE, TRUE)>>)]]

Languages == DOMAIN PATTERNS

\* CJK ideographs, Hiragana/Katakana, Hangul.
contains_non_ascii(text) ==
  \E i \in 1..Len(text) :
    \/ 19968 <= text[i] /\ text[i] <= 40959
    \/ 12352 <= text[i] /\ text[i] <= 12543
    \/ 44032 <= text[i] /\ text[i] <= 55215

NoMatch == [start |-> -1, end |-> -1, groups |-> << >>]

RECURSIVE StringEnd(_, _, _)
\* The end (exclusive) of  quote([^quote\\]|\\.)*quote  whose body starts at
\* j, or -1: the body's two alternatives never start with the same
\* character, so the scan is deterministic.
StringEnd(s, j, q) ==
  IF j >= Len(s) THEN -1
  ELSE IF s[j + 1] = q.quote THEN j + 1
  ELSE IF q.esc /\ s[j + 1] = Ch.bs
    THEN IF j + 1 < Len(s) /\ s[j + 2] # Ch.nl THEN StringEnd(s, j + 2, q) ELSE -1
  ELSE IF ~q.nlOk /\ s[j + 1] = Ch.nl THEN -1
  ELSE StringEnd(s, j + 1, q)

\* A match: its span and its groups (<<text>> for a group that took part,
\* << >> for one that did not).
Match(start, end, groups) == [start |-> start, end |-> end, groups |-> groups]

\* n, or len(s) when n is -1
OrEnd(n, s) == IF n = -1 THEN Len(s) ELSE n

\* marker(.*)$ at i, e being the end of the line
LineMatch(s, i, b, e) == Match(i, e, <<<<Slice(s, b, e)>>>>)

\* open(.*?)close at i by alternative k, c being where close starts
DelimMatch(s, i, alts, k, c) ==
  Match(i, c + Len(alts[k].close),
        [g \in 1..Len(alts) |->
           IF g = k THEN <<Slice(s, i + Len(alts[k].open), c)>> ELSE << >>])

DelimOk(s, i, alt) ==
  StartsWith(s, i, alt.open) /\ Find(s, alt.close, i + Len(alt.open)) # -1

\* The first alternative among K, the ones that match at i.
DelimFirst(s, i, alts, K) ==
  IF K = {} THEN NoMatch
  ELSE DelimMatch(s, i, alts, Min(K),
                  Find(s, alts[Min(K)].close, i + Len(alts[Min(K)].open)))

StringOk(s, i, alt) ==
  i < Len(s) /\ s[i + 1] = alt.quote /\ StringEnd(s, i + 1, alt) # -1

StringFirst(s, i, alts, K) ==
  IF K = {} THEN NoMatch
  ELSE Match(i, StringEnd(s, i + 1, alts[Min(K)]), << >>)

\* re.match of the pattern at position i.
MatchAt(s, i, pat) ==
  IF pat.kind = "line" THEN
    IF ~StartsWith(s, i, pat.marker) THEN NoMatch
    ELSE LineMatch(s, i, i + Len(pat.marker),
                   OrEnd(Find(s, <<Ch.nl>>, i + Len(pat.marker)), s))
  ELSE IF pat.kind = "delim" THEN
    DelimFirst(s, i, pat.alts, {k \in 1..Len(pat.alts) : DelimOk(s, i, pat.alts[k])})
  ELSE
    StringFirst(s, i, pat.alts, {k \in 1..Len(pat.alts) : StringOk(s, i, pat.alts[k])})

RECURSIVE FindIter(_, _, _)
\* The matches from the leftmost start in C on.
FindIterFrom(s, pat, C) ==
  IF C = {} THEN << >>
  ELSE <<MatchAt(s, Min(C), pat)>> \o FindIter(s, pat, MatchAt(s, Min(C), pat).end)

\* pattern.finditer(content): leftmost match from pos, then on from its end.
FindIter(s, pat, pos) ==
  FindIterFrom(s, pat, {i \in pos..(Len(s) - 1) : MatchAt(s, i, pat).start # -1})

\* A column counted from one.
Col_from_one(s, pos) == pos - RFind(s, <<Ch.nl>>, 0, pos)

\* match.start() - content.rfind('\n', 0, match.start()) - 1
Col(s, pos) == pos - RFind(s, <<Ch.nl>>, 0, pos) - 1

CodeElement(type, text, start_line, end_line, start_col, end_col, original_text) ==
  [type |-> type, text |-> text, start_line |-> start_line, end_line |-> end_line,
   start_col |-> start_col, end_col |-> end_col, original_text |-> original_text]

\* The names of the block/doc patterns, in the order the extractor runs them.
BlockPatternNames == <<"block_comment", "docstring", "javadoc", "doc_comment">>

Truthy(g) == Len(g) > 0 /\ Len(g[1]) > 0

\* match.group(1) if match.group(1) else (match.group(2) or ""): group(2) of
\* a pattern that has one group raises IndexError.
GroupTextRaises(m) == ~Truthy(m.groups[1]) /\ Len(m.groups) < 2

GroupText(m) ==
  IF Truthy(m.groups[1]) THEN m.groups[1][1]
  ELSE IF Len(m.groups) >= 2 /\ Truthy(m.groups[2]) THEN m.groups[2][1]
  ELSE << >>

\* lines[line_num] if line_num < len(lines) else ""
LineOr(lines, line_num) == IF line_num < Len(lines) THEN lines[line_num + 1] ELSE << >>

\* parser.py lines 132-141
LineElement(content, lines, m, line_num) ==
  CodeElement(COMMENT, Strip(m.groups[1][1]), line_num, line_num,
              Col(content, m.start), Col(content, m.end), LineOr(lines, line_num))

LineElementsFrom(content, lines, keep) ==
  [i \in 1..Len(keep) |->
     LineElement(content, lines, keep[i], CountNl(content, keep[i].start))]

\* parser.py lines 127-141: the line comments that hold foreign text.
LineCommentElements(content, patterns) ==
  IF "line_comment" \notin DOMAIN patterns THEN << >>
  ELSE LineElementsFrom(
         content, SplitLines(content),
         SelectSeq(FindIter(content, patterns.line_comment, 0),
                   LAMBDA m : contains_non_ascii(Strip(m.groups[1][1]))))

\* 'doc' in pattern_name
IsDocName(pattern_name) == pattern_name \in {"docstring", "javadoc", "doc_comment"}

BlockMatches(content, patterns, pattern_name) ==
  IF pattern_name \in DOMAIN patterns
  THEN FindIter(content, patterns[pattern_name], 0)
  ELSE << >>

\* parser.py lines 152-165
BlockElement(content, pattern_name, m) ==
  CodeElement(IF IsDocName(pattern_name) THEN DOCSTRING ELSE COMMENT,
              Strip(GroupText(m)),
              CountNl(content, m.start), CountNl(content, m.end),
              Col(content, m.start), Col(content, m.end),
              Slice(content, m.start, m.end))

BlockElementsFrom(content, pattern_name, keep) ==
  [i \in 1..Len(keep) |-> BlockElement(content, pattern_name, keep[i])]

\* The result of an extraction: the list returned, or an exception raised.
Returned(elements) == [raised |-> FALSE, elements |-> elements]

Raised == [raised |-> TRUE, elements |-> << >>]

\* parser.py lines 146-165 for the matches ms of one pattern.
BlockResult(content, pattern_name, ms) ==
  IF \E i \in 1..Len(ms) : GroupTextRaises(ms[i]) THEN Raised
  ELSE Returned(BlockElementsFrom(
                  content, pattern_name,
                  SelectSeq(ms, LAMBDA m : contains_non_ascii(Strip(GroupText(m))))))

\* parser.py lines 144-145: the loop over the pattern names.
BlockResults(content, patterns) ==
  [n \in 1..Len(BlockPatternNames) |->
     BlockResult(content, BlockPatternNames[n],
                 BlockMatches(content, patterns, BlockPatternNames[n]))]

Collected(line_elements, blocks) ==
  IF \E n \in 1..Len(blocks) : blocks[n].raised THEN Raised
  ELSE Returned(line_elements \o blocks[1].elements \o blocks[2].elements
                \o blocks[3].elements \o blocks[4].elements)

extract_comments_and_docstrings(content, language) ==
  Collected(LineCommentElements(content, PATTERNS[language]),
            BlockResults(content, PATTERNS[language]))

\* sum(len(line) + 1 for line in content.split('\n')[:k])
LineStart(lines, k) ==
  LET sums[i \in 0..Len(lines)] == IF i = 0 THEN 0 ELSE sums[i - 1] + Len(lines[i]) + 1
  IN  sums[IF k > Len(lines) THEN Len(lines) ELSE k]

CoveredFrom(lines, elements) ==
  {<<LineStart(lines, elements[i].start_line), LineStart(lines, elements[i].end_line + 1)>> :
     i \in 1..Len(elements)}

\* parser.py lines 180-185
covered_ranges(content, elements) == CoveredFrom(SplitLines(content), elements)

\* parser.py lines 195-198
is_covered(m, covered) ==
  \E r \in covered : m.start >= r[1] /\ m.end <= r[2]

\* parser.py lines 201-213
StringElement(content, lines, m, line_num) ==
  CodeElement(STRING_LITERAL, Slice(content, m.start + 1, m.end - 1),
              line_num, line_num,
              Col(content, m.start), Col(content, m.end), LineOr(lines, line_num))

StringElementsFrom(content, lines, keep) ==
  [i \in 1..Len(keep) |->
     StringElement(content, lines, keep[i], CountNl(content, keep[i].start))]

\* parser.py lines 189-213: the string literals added in aggressive mode.
StringElements(content, patterns, covered) ==
  IF "string" \notin DOMAIN patterns THEN << >>
  ELSE StringElementsFrom(
         content, SplitLines(content),
         SelectSeq(FindIter(content, patterns.string, 0),
                   LAMBDA m : /\ ~is_covered(m, covered)
                              /\ contains_non_ascii(
                                   Slice(content, m.start + 1, m.end - 1))))

WithStrings(content, patterns, base) ==
  IF base.raised THEN Raised
  ELSE Returned(base.elements
                \o StringElements(content, patterns,
                                  covered_ranges(content, base.elements)))

extract_all_translatable(content, language) ==
  WithStrings(content, PATTERNS[language],
              extract_comments_and_docstrings(content, language))

\* processor.py lines 138-141
Extract(all, content, language) ==
  IF all THEN extract_all_translatable(content, language)
  ELSE extract_comments_and_docstrings(content, language)

\* --------------------------------------------------------- reconstructor

\* The pairs in ascending start_line order.
SortedElements_ascending(pairs) ==
  LET n == Len(pairs)
      before(j, i) ==
        \/ pairs[j].element.start_line < pairs[i].element.start_line
        \/ pairs[j].element.start_line = pairs[i].element.start_line /\ j < i
      rank(i) == 1 + Cardinality({j \in 1..n : before(j, i)})
  IN  [p \in 1..n |-> pairs[CHOOSE i \in 1..n : rank(i) = p]]

\* sorted(translated_elements, key=start_line, reverse=True): stable, so
\* pairs on the same start line keep their order of discovery.
SortedElements(pairs) ==
  LET n == Len(pairs)
      before(j, i) ==
        \/ pairs[j].element.start_line > pairs[i].element.start_line
        \/ pairs[j].element.start_line = pairs[i].element.start_line /\ j < i
      rank(i) == 1 + Cardinality({j \in 1..n : before(j, i)})
  IN  [p \in 1..n |-> pairs[CHOOSE i \in 1..n : rank(i) = p]]

\* lines[idx] = value
SetLine(lines, idx, value) == [lines EXCEPT ![idx + 1] = value]

\* processor.py lines 190-216
ApplyComment(lines, element, translation) ==
  LET line_idx == element.start_line
      comment_start == element.start_col
  IN
  IF line_idx >= Len(lines) THEN lines
  ELSE LET line == lines[line_idx + 1]
           near_hash == Slice(line, comment_start - 2, comment_start + 3)
           near_slash == Slice(line, comment_start - 2, comment_start + 4)
       IN
    IF comment_start >= Len(line) THEN lines
    ELSE IF Slice(line, comment_start, comment_start + 2) = SLASH2
      THEN SetLine(lines, line_idx,
                   Slice(line, 0, comment_start + 2) \o <<Ch.sp>> \o translation)
    ELSE IF line[comment_start + 1] = Ch.hash
      THEN SetLine(lines, line_idx,
                   Slice(line, 0, comment_start + 1) \o <<Ch.sp>> \o translation)
    ELSE IF Contains(near_hash, <<Ch.hash>>)
      THEN SetLine(lines, line_idx,
                   Slice(line, 0, RFind(line, <<Ch.hash>>, 0, comment_start + 3) + 1)
                   \o <<Ch.sp>> \o translation)
    ELSE IF Contains(near_slash, SLASH2)
      THEN SetLine(lines, line_idx,
                   Slice(line, 0, RFind(line, SLASH2, 0, comment_start + 4) + 2)
                   \o <<Ch.sp>> \o translation)
    ELSE lines

DQ3 == <<Ch.dq, Ch.dq, Ch.dq>>

SQ3 == <<Ch.sq, Ch.sq, Ch.sq>>

\* processor.py lines 218-251
ApplyDocstring(lines, element, translation) ==
  LET start_line == element.start_line
      end_line == element.end_line
  IN
  IF start_line >= Len(lines) THEN lines
  ELSE
    LET original_start_line == lines[start_line + 1]
        quote_style == IF Contains(original_start_line, SQ3) THEN SQ3 ELSE DQ3
        indent == Len(original_start_line) - Len(LStrip(original_start_line))
        indent_str == Slice(original_start_line, 0, indent)
        translated_lines == SplitLines(translation)
        at == Find(original_start_line, quote_style, 0)
        \* original_start_line[:-1] when find() returns -1
        prefix == IF at = -1
                  THEN Slice(original_start_line, 0, Len(original_start_line) - 1)
                  ELSE Slice(original_start_line, 0, at)
    IN
    IF start_line = end_line
    THEN SetLine(lines, start_line,
                 indent_str \o quote_style \o translation \o quote_style)
    ELSE Slice(lines, 0, start_line)
         \o <<prefix \o quote_style>>
         \o [i \in 1..Len(translated_lines) |->
               IF Strip(translated_lines[i]) # << >>
               THEN indent_str \o translated_lines[i] ELSE << >>]
         \o <<indent_str \o quote_style>>
         \o Slice(lines, end_line + 1, Len(lines))

\* processor.py lines 253-268 (a CodeElement always has start_col and
\* end_col, so the text-search fallback is never taken)
ApplyString(lines, element, translation) ==
  LET line_idx == element.start_line IN
  IF line_idx >= Len(lines) THEN lines
  ELSE
    LET line == lines[line_idx + 1]
        before == Slice(line, 0, element.start_col)
        after == Slice(line, element.end_col, Len(line))
        quote_char == IF element.start_col < Len(line)
                      THEN line[element.start_col + 1] ELSE Ch.dq
    IN  SetLine(lines, line_idx,
                before \o <<quote_char>> \o translation \o <<quote_char>> \o after)

ApplyElement(lines, pair) ==
  IF pair.element.type = COMMENT THEN ApplyComment(lines, pair.element, pair.translation)
  ELSE IF pair.element.type = DOCSTRING
    THEN ApplyDocstring(lines, pair.element, pair.translation)
  ELSE IF pair.element.type = STRING_LITERAL
    THEN ApplyString(lines, pair.element, pair.translation)
  ELSE lines

RECURSIVE ApplyAll(_, _)
\* processor.py line 189: the loop over the sorted pairs.
ApplyAll(lines, pairs) ==
  IF Len(pairs) = 0 THEN lines
  ELSE ApplyAll(ApplyElement(lines, Head(pairs)), Tail(pairs))

reconstruct_file(original_content, translated_elements) ==
  JoinLines(ApplyAll(SplitLines(original_content), SortedElements(translated_elements)))

\* ------------------------------------------------------------ translator

max_text_length == 10000

\* What one call of ollama.generate does (it raises, or it answers with a
\* text), and whether the print of the
\* except handler (line 90) succeeds: it raises on a console that cannot
\* encode the text and on a closed pipe.
EngineError == [raised |-> TRUE, response |-> << >>, reported |-> TRUE]

EngineErrorUnreported == [raised |-> TRUE, response |-> << >>, reported |-> FALSE]

EngineText(response) == [raised |-> FALSE, response |-> response, reported |-> TRUE]

EngineReplies ==
  {EngineError, EngineText(<<Ch.T>>), EngineText(<<Ch.sp, Ch.T, Ch.nl, Ch.nl, Ch.a>>)}

\* TranslationConfig, for the field translate reads.
TranslationConfig(max_text_length_) == [max_text_length |-> max_text_length_]

\* LocalTranslator.translate under a configuration: blank text is returned
\* as it is, text over config.max_text_length is cut, an engine error gives
\* the (cut) text back, an answer is stripped.
LocalTranslator_translate(config, text, reply) ==
  IF Strip(text) = << >> THEN text
  ELSE IF reply.raised
  THEN IF Len(text) > config.max_text_length
       THEN Slice(text, 0, config.max_text_length) ELSE text
  ELSE Strip(reply.response)

\* LocalTranslator.translate under the default configuration.
translate(text, reply) ==
  LocalTranslator_translate(TranslationConfig(max_text_length), text, reply)

\* LocalTranslator.translate raises: the handler of lines 89-91 raised.
translate_raises(text, reply) ==
  Strip(text) # << >> /\ reply.raised /\ ~reply.reported

\* processor.py lines 149-153 for the whole element list, replies[i] being
\* the engine's reply to the i-th call.
TranslatedElements(elements, replies) ==
  [i \in 1..Len(elements) |->
     [element |-> elements[i], translation |-> translate(elements[i].text, replies[i])]]

\* ------------------------------------------------------------- variables

VARIABLES
  files,             \* the directory's files, by path index
  dry_run,           \* FileProcessor.dry_run
  translate_all,     \* FileProcessor.translate_all
  max_workers,       \* FileProcessor.max_workers
  files_to_process,  \* process_directory's list of paths
  disk,              \* the content on disk of each path
  stats,             \* the shared ProcessingStats
  task,              \* per submitted task: position in process_file and its locals
  collected,         \* the futures the as_completed loop has handled
  returned,          \* process_directory has returned
  tx,                \* one in-memory run of extractor and reconstructor
  cli,               \* main: its arguments, the configuration and how it exits
  listing,           \* process_directory's arguments and the directory it lists
  batch,             \* one call of LocalTranslator.translate_batch
  sync               \* the threads of a run at the ProcessingStats lock

vars ==
  <<files, dry_run, translate_all, max_workers, files_to_process, disk, stats,
    task, collected, returned, tx, cli, listing, batch, sync>>

runVars ==
  <<files, dry_run, translate_all, max_workers, files_to_process, disk, stats,
    task, collected, returned, cli, listing, batch, sync>>

\* ----------------------------------------- extractor/reconstructor inputs

\* The most lines an input text has.
MaxLines == 3

PyLines ==
  <<<<Ch.a>>,
    <<Ch.hash, Ch.zh>>,
    <<Ch.a, Ch.sp, Ch.hash, Ch.sp, Ch.zh>>,
    <<Ch.sp, Ch.dq, Ch.dq, Ch.dq, Ch.zh, Ch.dq, Ch.dq, Ch.dq>>,
    <<Ch.sp, Ch.dq, Ch.dq, Ch.dq, Ch.zh>>,
    <<Ch.sp, Ch.zh, Ch.dq, Ch.dq, Ch.dq>>,
    <<Ch.a, Ch.sp, Ch.dq, Ch.zh, Ch.dq>>,
    <<Ch.a, Ch.sp, Ch.dq, Ch.dq, Ch.dq, Ch.zh, Ch.dq, Ch.dq, Ch.dq>>,
    <<Ch.hash, Ch.sp, Ch.eacute>>,
    <<Ch.dq, Ch.zh, Ch.dq, Ch.sp, Ch.dq, Ch.zh, Ch.dq>>>>

CLines ==
  <<<<Ch.a>>,
    <<Ch.slash, Ch.slash, Ch.zh>>,
    <<Ch.a, Ch.sp, Ch.slash, Ch.slash, Ch.sp, Ch.kana>>,
    <<Ch.slash, Ch.star, Ch.zh, Ch.star, Ch.slash>>,
    <<Ch.slash, Ch.star, Ch.star, Ch.zh>>,
    <<Ch.sp, Ch.star, Ch.slash>>,
    <<Ch.slash, Ch.slash, Ch.slash, Ch.zh>>,
    <<Ch.a, Ch.sp, Ch.dq, Ch.hangul, Ch.dq>>,
    <<Ch.slash, Ch.slash, Ch.dq, Ch.zh>>,
    <<Ch.dq>>,
    <<Ch.slash, Ch.star, Ch.star, Ch.slash>>>>

LinesOf(language) == IF language = "python" THEN PyLines ELSE CLines

\* The input texts of a language: up to MaxLines of its lines.
Contents(language) ==
  {JoinLines([i \in DOMAIN ix |-> LinesOf(language)[ix[i]]]) :
     ix \in UNION {[1..n -> 1..Len(LinesOf(language))] : n \in 0..MaxLines}}

\* config.py lines 20-23: the processing settings of Config().
Config(translate_all_, dry_run_, max_workers_, recursive_) ==
  [translate_all |-> translate_all_, dry_run |-> dry_run_,
   max_workers |-> max_workers_, recursive |-> recursive_]

DefaultConfig == Config(FALSE, FALSE, 4, TRUE)

\* Config.merge_with_args: the new Config it returns.  main passes every
\* keyword, so kwargs.get(key, default) is the argument; a workers of 0 is
\* falsy and gives way to the file's value.
merge_with_args(self, kwargs) ==
  Config(kwargs.translate_all, kwargs.dry_run,
         IF kwargs.workers # 0 THEN kwargs.workers ELSE self.max_workers,
         kwargs.recursive)

\* Not run from main, with no listing of its own, and no batch call.
CliIdle ==
  [phase |-> "idle", args |-> [translate_all |-> FALSE, dry_run |-> FALSE,
                               workers |-> 4, recursive |-> TRUE],
   app_config |-> DefaultConfig, recursive |-> TRUE,
   interrupted |-> FALSE, exit_status |-> 0, stats_printed |-> FALSE]

ListingIdle == [phase |-> "idle"]

BatchIdle == [phase |-> "idle"]

SyncIdle == [phase |-> "idle"]

TxIdle ==
  [phase |-> "idle", content |-> << >>, language |-> "python", translate_all |-> FALSE,
   extraction |-> Returned(<< >>), reply |-> EngineError, output |-> << >>]

\* ------------------------------------------------------------ file system

\* The most files the directory holds.
NumFiles == 2

SKIP_EXTENSIONS ==
  {".pyc", ".pyo", ".so", ".dll", ".exe", ".bin", ".obj",
   ".jpg", ".jpeg", ".png", ".gif", ".bmp", ".ico", ".svg",
   ".mp3", ".mp4", ".avi", ".mov", ".wav",
   ".zip", ".tar", ".gz", ".rar", ".7z",
   ".pdf", ".doc", ".docx"}

LANGUAGE_EXTENSIONS ==
  ".py" :> "python" @@ ".js" :> "javascript" @@ ".jsx" :> "javascript"
  @@ ".ts" :> "javascript" @@ ".tsx" :> "javascript" @@ ".java" :> "java"
  @@ ".go" :> "go" @@ ".rs" :> "rust" @@ ".c" :> "javascript"
  @@ ".cpp" :> "javascript" @@ ".cc" :> "javascript" @@ ".h" :> "javascript"
  @@ ".hpp" :> "javascript"

\* file_path.suffix.lower(), for the suffixes the model's files have.
Lower(suffix) == IF suffix = ".PY" THEN ".py" ELSE suffix

NoLanguage == "none"

\* CodeParser.detect_language
detect_language(file) ==
  IF Lower(file.suffix) \in DOMAIN LANGUAGE_EXTENSIONS
  THEN LANGUAGE_EXTENSIONS[Lower(file.suffix)] ELSE NoLanguage

MaxFileSize == 1024 * 1024

\* A skip check that looks at the size of the file only.
should_skip_file_by_size(file) == ~file.stat_ok \/ file.size > MaxFileSize

\* FileProcessor.should_skip_file
should_skip_file(file) ==
  \/ Lower(file.suffix) \in SKIP_EXTENSIONS
  \/ detect_language(file) = NoLanguage
  \/ ~file.stat_ok
  \/ file.size > MaxFileSize

\* A file: its suffix, whether stat() and read_text() succeed, its size in
\* bytes, its content, and what write_text() does when it is called:
\* "ok", "fail_open" (open() raises OSError, nothing is written) or
\* "fail_write" (open() has truncated the file and the write raises OSError).
File(suffix, content, readable, write) ==
  [suffix |-> suffix, stat_ok |-> TRUE, size |-> Len(content), content |-> content,
   readable |-> readable, write |-> write]

\* "中"  and  # 中  on two lines: one element (the comment) in conservative
\* mode, two (the comment, then the string) in aggressive mode.
PyStringAndComment ==
  <<Ch.dq, Ch.zh, Ch.dq, Ch.nl, Ch.hash, Ch.sp, Ch.zh>>

\* The kinds of file a directory is made of.
FileKinds ==
  <<File(".py", PyStringAndComment, TRUE, "ok"),
    File(".py", <<128, 129>>, FALSE, "ok"),
    File(".py", <<Ch.a>>, TRUE, "ok"),
    File(".js", <<Ch.slash, Ch.star, Ch.star, Ch.slash>>, TRUE, "ok"),
    File(".pyc", <<128, 129>>, FALSE, "ok"),
    File(".PY", <<Ch.hash, Ch.zh>>, TRUE, "fail_open"),
    File(".txt", <<Ch.zh>>, TRUE, "ok"),
    File(".py", <<Ch.hash, Ch.sp, Ch.zh>>, TRUE, "fail_write"),
    [File(".py", <<Ch.hash, Ch.zh>>, TRUE, "ok") EXCEPT !.size = MaxFileSize + 1]>>

\* The engine's replies in a directory run.
RunReplies == {EngineError, EngineErrorUnreported, EngineText(<<Ch.T>>)}

\* The worker counts a run is made with.
WorkerCounts == {1, 4}

NewStats ==
  [files_scanned |-> 0, files_with_foreign_text |-> 0, files_translated |-> 0,
   elements_translated |-> 0, files_skipped |-> 0, errors |-> << >>]

NewTask ==
  [pc |-> "queued", content |-> << >>, elements |-> << >>, replies |-> << >>,
   new_content |-> << >>, result |-> "pending"]

\* ------------------------------------------------------- ProcessingStats

increment_scanned(st) == [st EXCEPT !.files_scanned = @ + 1]

\* A counter of files with foreign text that is never advanced.
increment_with_foreign_text_never(st) == st

increment_with_foreign_text(st) == [st EXCEPT !.files_with_foreign_text = @ + 1]

\* A counter of translated files that is advanced by two.
increment_translated_twice(st) == [st EXCEPT !.files_translated = @ + 2]

increment_translated(st) == [st EXCEPT !.files_translated = @ + 1]

increment_elements_translated(st, count) == [st EXCEPT !.elements_translated = @ + count]

increment_skipped(st) == [st EXCEPT !.files_skipped = @ + 1]

add_error(st, error) == [st EXCEPT !.errors = Append(@, error)]

\* ---------------------------------------------------------- process_file

Tasks == 1..Len(files_to_process)

PathOf(t) == files_to_process[t]

Running(t) == task[t].pc \notin {"queued", "done"}

\* A task returns (result "none" or "result") or raises ("exception").
Finish(t, result) == [task EXCEPT ![t].pc = "done", ![t].result = result]

\* A write-back that does not look at the flag.
writes_back_always(dry) == TRUE

\* processor.py line 161
writes_back(dry) == ~dry

\* What a write that fails after open() truncated the file can leave behind:
\* nothing, or the first half of the new content.
PartialWrites(new_content) == {<< >>, Slice(new_content, 0, Len(new_content) \div 2)}

\* The start of a task whose increment of files_scanned is lost when
\* another task is running.
Start_unlocked(t) ==
  /\ ~returned
  /\ task[t].pc = "queued"
  /\ \A u \in Tasks : u < t => task[u].pc # "queued"
  /\ Cardinality({u \in Tasks : Running(u)}) < max_workers
  /\ task' = [task EXCEPT ![t].pc = "started"]
  /\ stats' = IF \E u \in Tasks : Running(u) THEN stats ELSE increment_scanned(stats)
  /\ UNCHANGED <<files, dry_run, translate_all, max_workers, files_to_process,
                 disk, collected, returned, tx, cli, listing, batch, sync>>

\* The start of a task by a pool of one worker, whatever max_workers is.
Start_serial(t) ==
  /\ ~returned
  /\ task[t].pc = "queued"
  /\ \A u \in Tasks : u < t => task[u].pc # "queued"
  /\ \A u \in Tasks : ~Running(u)
  /\ task' = [task EXCEPT ![t].pc = "started"]
  /\ stats' = increment_scanned(stats)
  /\ UNCHANGED <<files, dry_run, translate_all, max_workers, files_to_process,
                 disk, collected, returned, tx, cli, listing, batch, sync>>

\* The start of a task by a pool that has a worker for every task.
Start_uncapped(t) ==
  /\ ~returned
  /\ task[t].pc = "queued"
  /\ \A u \in Tasks : u < t => task[u].pc # "queued"
  /\ task' = [task EXCEPT ![t].pc = "started"]
  /\ stats' = increment_scanned(stats)
  /\ UNCHANGED <<files, dry_run, translate_all, max_workers, files_to_process,
                 disk, collected, returned, tx, cli, listing, batch, sync>>

\* A pool worker takes the oldest queued task and runs process_file up to
\* and including increment_scanned (line 115).
Start(t) ==
  /\ ~returned
  /\ task[t].pc = "queued"
  /\ \A u \in Tasks : u < t => task[u].pc # "queued"
  /\ Cardinality({u \in Tasks : Running(u)}) < max_workers
  /\ task' = [task EXCEPT ![t].pc = "started"]
  /\ stats' = increment_scanned(stats)
  /\ UNCHANGED <<files, dry_run, translate_all, max_workers, files_to_process,
                 disk, collected, returned, tx, cli, listing, batch, sync>>

\* An outcome of the extraction that counts a file without elements among
\* the files with foreign text.
Extracted_counting_empty(t, content, found) ==
  IF found.raised
  THEN /\ stats' = stats
       /\ task' = Finish(t, "exception")
  ELSE IF Len(found.elements) = 0
  THEN /\ stats' = increment_with_foreign_text(stats)
       /\ task' = Finish(t, "none")
  ELSE /\ stats' = increment_with_foreign_text(stats)
       /\ task' = [task EXCEPT ![t].pc = "translate", ![t].content = content,
                               ![t].elements = found.elements]

\* Lines 143-146: no elements, or increment_with_foreign_text; an exception
\* of the extraction leaves process_file.
Extracted(t, content, found) ==
  IF found.raised
  THEN /\ stats' = stats
       /\ task' = Finish(t, "exception")
  ELSE IF Len(found.elements) = 0
  THEN /\ stats' = stats
       /\ task' = Finish(t, "none")
  ELSE /\ stats' = increment_with_foreign_text(stats)
       /\ task' = [task EXCEPT ![t].pc = "translate", ![t].content = content,
                               ![t].elements = found.elements]

\* Lines 117-146: the skip check, the read, the language lookup and the
\* extraction, up to and including the one update of the stats that follows.
Examine(t) ==
  /\ task[t].pc = "started"
  /\ IF should_skip_file(files[PathOf(t)])
     THEN /\ stats' = increment_skipped(stats)
          /\ task' = Finish(t, "none")
     ELSE IF ~files[PathOf(t)].readable
     THEN /\ stats' = increment_skipped(stats)
          /\ task' = [task EXCEPT ![t].pc = "read_failed"]
     ELSE IF detect_language(files[PathOf(t)]) = NoLanguage
     THEN /\ stats' = increment_skipped(stats)
          /\ task' = Finish(t, "none")
     ELSE Extracted(t, disk[PathOf(t)],
                    Extract(translate_all, disk[PathOf(t)],
                            detect_language(files[PathOf(t)])))
  /\ UNCHANGED <<files, dry_run, translate_all, max_workers, files_to_process,
                 disk, collected, returned, tx, cli, listing, batch, sync>>

\* Lines 126-129, after increment_skipped: add_error, return None.
ReadError(t) ==
  /\ task[t].pc = "read_failed"
  /\ stats' = add_error(stats, [path |-> PathOf(t), kind |-> "read"])
  /\ task' = Finish(t, "none")
  /\ UNCHANGED <<files, dry_run, translate_all, max_workers, files_to_process,
                 disk, collected, returned, tx, cli, listing, batch, sync>>

\* Lines 150-153: one call of translator.translate, for the next element;
\* an exception of the call leaves process_file.
Translate(t) ==
  /\ task[t].pc = "translate"
  /\ Len(task[t].replies) < Len(task[t].elements)
  /\ \E reply \in RunReplies :
       task' = IF translate_raises(task[t].elements[Len(task[t].replies) + 1].text, reply)
               THEN [Finish(t, "exception") EXCEPT ![t].replies = Append(@, reply)]
               ELSE [task EXCEPT ![t].replies = Append(@, reply)]
  /\ UNCHANGED <<files, dry_run, translate_all, max_workers, files_to_process,
                 disk, stats, collected, returned, tx, cli, listing, batch, sync>>

\* Line 155, and the reconstruction of line 158.
CountElements(t) ==
  /\ task[t].pc = "translate"
  /\ Len(task[t].replies) = Len(task[t].elements)
  /\ stats' = increment_elements_translated(stats, Len(task[t].elements))
  /\ task' = [task EXCEPT
       ![t].pc = "write",
       ![t].new_content =
          reconstruct_file(task[t].content,
                           TranslatedElements(task[t].elements, task[t].replies))]
  /\ UNCHANGED <<files, dry_run, translate_all, max_workers, files_to_process,
                 disk, collected, returned, tx, cli, listing, batch, sync>>

\* Lines 161-163: the write, or its skipping in a dry run.
WriteBack(t) ==
  /\ task[t].pc = "write"
  /\ IF ~writes_back(dry_run)
     THEN /\ task' = Finish(t, "result")
          /\ disk' = disk
     ELSE IF files[PathOf(t)].write = "ok"
     THEN /\ task' = [task EXCEPT ![t].pc = "written"]
          /\ disk' = [disk EXCEPT ![PathOf(t)] = task[t].new_content]
     ELSE IF files[PathOf(t)].write = "fail_open"
     THEN /\ task' = [task EXCEPT ![t].pc = "write_failed"]
          /\ disk' = disk
     ELSE /\ task' = [task EXCEPT ![t].pc = "write_failed"]
          /\ \E left \in PartialWrites(task[t].new_content) :
               disk' = [disk EXCEPT ![PathOf(t)] = left]
  /\ UNCHANGED <<files, dry_run, translate_all, max_workers, files_to_process,
                 stats, collected, returned, tx, cli, listing, batch, sync>>

\* Line 164, and the return of lines 169-174.
MarkTranslated(t) ==
  /\ task[t].pc = "written"
  /\ stats' = increment_translated(stats)
  /\ task' = Finish(t, "result")
  /\ UNCHANGED <<files, dry_run, translate_all, max_workers, files_to_process,
                 disk, collected, returned, tx, cli, listing, batch, sync>>

\* Lines 165-167
WriteError(t) ==
  /\ task[t].pc = "write_failed"
  /\ stats' = add_error(stats, [path |-> PathOf(t), kind |-> "write"])
  /\ task' = Finish(t, "none")
  /\ UNCHANGED <<files, dry_run, translate_all, max_workers, files_to_process,
                 disk, collected, returned, tx, cli, listing, batch, sync>>

\* ----------------------------------------------------- process_directory

\* Lines 318-326: the as_completed loop takes a finished future; an
\* exception of the task is appended to stats.errors.  A KeyboardInterrupt
\* has ended the loop.
Collect(t) ==
  /\ ~returned
  /\ ~cli.interrupted
  /\ task[t].pc = "done"
  /\ t \notin collected
  /\ collected' = collected \cup {t}
  /\ stats' = IF task[t].result = "exception"
              THEN [stats EXCEPT !.errors =
                      Append(@, [path |-> PathOf(t), kind |-> "exception"])]
              ELSE stats
  /\ UNCHANGED <<files, dry_run, translate_all, max_workers, files_to_process,
                 disk, task, returned, tx, cli, listing, batch, sync>>

\* A return that does not wait for the futures.
Return_early ==
  /\ ~returned
  /\ cli.phase \in {"idle", "running"}
  /\ ~cli.interrupted
  /\ returned' = TRUE
  /\ UNCHANGED <<files, dry_run, translate_all, max_workers, files_to_process,
                 disk, stats, task, collected, tx, cli, listing, batch, sync>>

\* Line 328: every future is handled and the executor has shut down; after
\* a KeyboardInterrupt process_directory does not return, it raises.  Under
\* main the call is made at cli.py line 213, not before.
Return ==
  /\ ~returned
  /\ cli.phase \in {"idle", "running"}
  /\ ~cli.interrupted
  /\ collected = Tasks
  /\ returned' = TRUE
  /\ UNCHANGED <<files, dry_run, translate_all, max_workers, files_to_process,
                 disk, stats, task, collected, tx, cli, listing, batch, sync>>

\* After FileProcessor.__init__ and the directory listing of
\* process_directory (lines 289-316): every file is submitted once.  The
\* listing order is the file system's: the files are listed by kind, one
\* order for each multiset of kinds.
Init ==
  /\ \E n \in 0..NumFiles : \E kind \in [1..n -> 1..Len(FileKinds)] :
       /\ \A i \in 1..(n - 1) : kind[i] <= kind[i + 1]
       /\ files = [i \in 1..n |-> FileKinds[kind[i]]]
  /\ dry_run \in BOOLEAN
  /\ translate_all \in BOOLEAN
  /\ max_workers \in WorkerCounts
  /\ files_to_process = [i \in 1..Len(files) |-> i]
  /\ disk = [p \in 1..Len(files) |-> files[p].content]
  /\ stats = NewStats
  /\ task = [t \in 1..Len(files) |-> NewTask]
  /\ collected = {}
  /\ returned = FALSE
  /\ tx = TxIdle
  /\ cli = CliIdle
  /\ listing = ListingIdle
  /\ batch = BatchIdle
  /\ sync = SyncIdle

Next ==
  \/ \E t \in Tasks : Start(t)
  \/ \E t \in Tasks : Examine(t)
  \/ \E t \in Tasks : ReadError(t)
  \/ \E t \in Tasks : Translate(t)
  \/ \E t \in Tasks : CountElements(t)
  \/ \E t \in Tasks : WriteBack(t)
  \/ \E t \in Tasks : MarkTranslated(t)
  \/ \E t \in Tasks : WriteError(t)
  \/ \E t \in Tasks : Collect(t)
  \/ Return

Spec == Init /\ [][Next]_vars

\* ------------------------------------- extractor and reconstructor alone

TxExtract ==
  /\ tx.phase = "input"
  /\ tx' = [tx EXCEPT !.phase = "extracted",
                      !.extraction = Extract(tx.translate_all, tx.content, tx.language)]
  /\ UNCHANGED runVars

\* process_file lines 149-158 with one engine behaviour for every element.
TxReconstruct ==
  /\ tx.phase = "extracted"
  /\ ~tx.extraction.raised
  /\ \E reply \in EngineReplies :
       tx' = [tx EXCEPT
         !.phase = "output",
         !.reply = reply,
         !.output = reconstruct_file(
                      tx.content,
                      TranslatedElements(tx.extraction.elements,
                                         [i \in 1..Len(tx.extraction.elements) |-> reply]))]
  /\ UNCHANGED runVars

TextInit ==
  /\ \E language \in Languages, all \in BOOLEAN :
       \E content \in Contents(language) :
         tx = [TxIdle EXCEPT !.phase = "input", !.content = content,
                             !.language = language, !.translate_all = all]
  /\ files = << >>
  /\ dry_run = TRUE
  /\ translate_all = FALSE
  /\ max_workers = 1
  /\ files_to_process = << >>
  /\ disk = << >>
  /\ stats = NewStats
  /\ task = << >>
  /\ collected = {}
  /\ returned = FALSE
  /\ cli = CliIdle
  /\ listing = ListingIdle
  /\ batch = BatchIdle
  /\ sync = SyncIdle

TextNext == TxExtract \/ TxReconstruct

TextSpec == TextInit /\ [][TextNext]_vars

\* ------------------------------------------------------------------ main

\* The command lines main is run with: no option; --dry-run;
\* --translate-all --workers 1 --no-recursive.
CommandLines ==
  {[translate_all |-> FALSE, dry_run |-> FALSE, workers |-> 4, recursive |-> TRUE],
   [translate_all |-> FALSE, dry_run |-> TRUE, workers |-> 4, recursive |-> TRUE],
   [translate_all |-> TRUE, dry_run |-> FALSE, workers |-> 1, recursive |-> FALSE]}

\* What Config.from_file or Config.find_config returns (lines 150-154): the
\* defaults, or the settings of a .code-translator.toml.
FileConfigs ==
  {DefaultConfig, Config(FALSE, TRUE, 1, TRUE), Config(TRUE, FALSE, 1, FALSE)}

\* The kinds of file of the directory main is run on.
CliFileKinds == <<FileKinds[1], FileKinds[2], FileKinds[8]>>

\* Lines 156-165: merge_with_args is called and the Config it returns is
\* dropped; app_config stays what was loaded.
Configure ==
  /\ cli.phase = "start"
  /\ cli' = [cli EXCEPT !.phase = "confirm"]
  /\ UNCHANGED <<files, dry_run, translate_all, max_workers, files_to_process,
                 disk, stats, task, collected, returned, tx, listing, batch, sync>>

\* Lines 178-185: with translate_all configured and no --dry-run argument
\* the user is asked, and "no" exits with status 0.
Confirm ==
  /\ cli.phase = "confirm"
  /\ IF cli.app_config.translate_all /\ ~cli.args.dry_run
     THEN \E answer \in BOOLEAN :
            cli' = IF answer THEN [cli EXCEPT !.phase = "init"]
                   ELSE [cli EXCEPT !.phase = "exited", !.exit_status = 0]
     ELSE cli' = [cli EXCEPT !.phase = "init"]
  /\ UNCHANGED <<files, dry_run, translate_all, max_workers, files_to_process,
                 disk, stats, task, collected, returned, tx, listing, batch, sync>>

\* Lines 188-213: the translator is built, or main exits with status 1;
\* the FileProcessor gets app_config's values, process_directory lists the
\* directory and submits every file (processor.py lines 289-316).
Run ==
  /\ cli.phase = "init"
  /\ \E ready \in BOOLEAN :
       IF ready
       THEN /\ cli' = [cli EXCEPT !.phase = "running",
                                  !.recursive = cli.app_config.recursive]
            /\ dry_run' = cli.app_config.dry_run
            /\ translate_all' = cli.app_config.translate_all
            /\ max_workers' = cli.app_config.max_workers
            /\ files_to_process' = [i \in 1..Len(files) |-> i]
            /\ task' = [t \in 1..Len(files) |-> NewTask]
       ELSE /\ cli' = [cli EXCEPT !.phase = "exited", !.exit_status = 1]
            /\ UNCHANGED <<dry_run, translate_all, max_workers, files_to_process, task>>
  /\ UNCHANGED <<files, disk, stats, collected, returned, tx, listing, batch, sync>>

\* The user's interrupt: KeyboardInterrupt is raised in the main thread,
\* which is in the as_completed loop (processor.py lines 318-326).
Interrupt ==
  /\ cli.phase = "running"
  /\ ~returned
  /\ ~cli.interrupted
  /\ cli' = [cli EXCEPT !.interrupted = TRUE]
  /\ UNCHANGED <<files, dry_run, translate_all, max_workers, files_to_process,
                 disk, stats, task, collected, returned, tx, listing, batch, sync>>

\* Lines 215-222: process_directory has returned; the statistics are
\* printed and main ends, with status 0.
Exit ==
  /\ cli.phase = "running"
  /\ returned
  /\ cli' = [cli EXCEPT !.phase = "exited", !.exit_status = 0, !.stats_printed = TRUE]
  /\ UNCHANGED <<files, dry_run, translate_all, max_workers, files_to_process,
                 disk, stats, task, collected, returned, tx, listing, batch, sync>>

\* processor.py line 312 and cli.py lines 224-226: leaving the with block
\* waits for every submitted task, then the KeyboardInterrupt reaches main,
\* which exits with status 130.
InterruptExit ==
  /\ cli.phase = "running"
  /\ cli.interrupted
  /\ \A t \in Tasks : task[t].pc = "done"
  /\ cli' = [cli EXCEPT !.phase = "exited", !.exit_status = 130]
  /\ UNCHANGED <<files, dry_run, translate_all, max_workers, files_to_process,
                 disk, stats, task, collected, returned, tx, listing, batch, sync>>

\* main is called: the arguments are parsed and the configuration loaded.
CliInit ==
  /\ \E args \in CommandLines, loaded \in FileConfigs :
       cli = [CliIdle EXCEPT !.phase = "start", !.args = args, !.app_config = loaded]
  /\ \E n \in 0..NumFiles : \E kind \in [1..n -> 1..Len(CliFileKinds)] :
       /\ \A i \in 1..(n - 1) : kind[i] <= kind[i + 1]
       /\ files = [i \in 1..n |-> CliFileKinds[kind[i]]]
  /\ dry_run = FALSE
  /\ translate_all = FALSE
  /\ max_workers = 4
  /\ files_to_process = << >>
  /\ disk = [p \in 1..Len(files) |-> files[p].content]
  /\ stats = NewStats
  /\ task = << >>
  /\ collected = {}
  /\ returned = FALSE
  /\ tx = TxIdle
  /\ listing = ListingIdle
  /\ batch = BatchIdle
  /\ sync = SyncIdle

CliNext ==
  \/ Configure
  \/ Confirm
  \/ Run
  \/ Next
  \/ Interrupt
  \/ Exit
  \/ InterruptExit

CliSpec == CliInit /\ [][CliNext]_vars

\* ------------------------------------------------------------- dry run

\* C1: with dry_run set, every file on disk holds its pre-run content in
\* every reachable state of a run, whatever was found or translated, and
\* files_translated stays 0.
C1_DryRunWritesNothing ==
  dry_run =>
    /\ \A p \in 1..Len(files) : disk[p] = files[p].content
    /\ stats.files_translated = 0

\* A dry run has reconstructed a file into something else than its content
\* and process_file has returned its result.
C1_Witness ==
  /\ dry_run
  /\ \E t \in Tasks :
       /\ task[t].pc = "done"
       /\ task[t].result = "result"
       /\ task[t].new_content # files[PathOf(t)].content

\* --------------------------------------------------- reconstruction alone

TxElements == tx.extraction.elements

TxLines == SplitLines(tx.content)

TxOutputLines == SplitLines(tx.output)

\* C2: when every element's translation is its own text, the reconstructed
\* content is the original content, for every content and either
\* extraction mode.
C2_IdentityRoundTrip ==
  (tx.phase = "output" /\ tx.reply = EngineError) => tx.output = tx.content

\* The lines of the content (0-based) that lie in no element's range.
UntouchedLines ==
  {n \in 0..(Len(TxLines) - 1) :
     \A i \in 1..Len(TxElements) :
       n < TxElements[i].start_line \/ n > TxElements[i].end_line}

RECURSIVE IsSubsequence(_, _, _, _)
\* a[i..] is a subsequence of b[j..]
IsSubsequence(a, i, b, j) ==
  IF i > Len(a) THEN TRUE
  ELSE IF j > Len(b) THEN FALSE
  ELSE IF a[i] = b[j] THEN IsSubsequence(a, i + 1, b, j + 1)
  ELSE IsSubsequence(a, i, b, j + 1)

RECURSIVE Pick(_, _, _)
\* The lines of numbers in keep, in order, from line n (0-based) on.
Pick(lines, keep, n) ==
  IF n >= Len(lines) THEN << >>
  ELSE IF n \in keep THEN <<lines[n + 1]>> \o Pick(lines, keep, n + 1)
  ELSE Pick(lines, keep, n + 1)

\* C3: reconstruction changes nothing outside the replaced spans: the lines
\* in no element's range appear unchanged and in their order in the output,
\* and where the one element of the content lies on one line, the output
\* still has what stood before the element's start column at the start of
\* that line.
C3_Frame ==
  tx.phase = "output" =>
    /\ IsSubsequence(Pick(TxLines, UntouchedLines, 0), 1, TxOutputLines, 1)
    /\ (Len(TxElements) = 1 /\ TxElements[1].start_line = TxElements[1].end_line) =>
         StartsWith(TxOutputLines[TxElements[1].start_line + 1], 0,
                    Slice(TxLines[TxElements[1].start_line + 1], 0,
                          TxElements[1].start_col))

\* C4: for a content with no character of the foreign-script ranges, each
\* of the two extractions returns the empty list, in every language.
C4_NoForeignNoElements ==
  (tx.phase = "extracted" /\ ~contains_non_ascii(tx.content)) =>
    /\ ~tx.extraction.raised
    /\ tx.extraction.elements = << >>

\* C5: in aggressive mode no string literal element's line range coincides
\* with or lies inside the line range of a comment or docstring element of
\* the same extraction.
C5_StringsOutsideComments ==
  (tx.phase = "extracted" /\ tx.translate_all /\ ~tx.extraction.raised) =>
    \A i, j \in 1..Len(TxElements) :
      (TxElements[i].type = STRING_LITERAL /\ TxElements[j].type # STRING_LITERAL) =>
        ~(/\ TxElements[j].start_line <= TxElements[i].start_line
          /\ TxElements[i].end_line <= TxElements[j].end_line)

\* ------------------------------------------------------ counts of a run

\* What the configured extraction returns for the file of a path.
Found(p) == Extract(translate_all, files[p].content, detect_language(files[p]))

\* The file passes the skip check and is read.
Examined(p) == ~should_skip_file(files[p]) /\ files[p].readable

\* The extraction returns at least one element for the file.
HasElements(p) ==
  Examined(p) /\ ~Found(p).raised /\ Len(Found(p).elements) > 0

\* One of the translate calls the task made raised.
TranslationRaised(t) ==
  \E i \in 1..Len(task[t].replies) :
    translate_raises(task[t].elements[i].text, task[t].replies[i])

\* The task gets as far as the reconstruction.
Reconstructs(t) == HasElements(PathOf(t)) /\ ~TranslationRaised(t)

RECURSIVE Sum(_, _)
Sum(f, n) == IF n = 0 THEN 0 ELSE f[n] + Sum(f, n - 1)

\* The errors a task leaves in stats.errors.
ErrorsOf(t) ==
  IF ~should_skip_file(files[PathOf(t)]) /\ ~files[PathOf(t)].readable THEN 1
  ELSE IF Examined(PathOf(t)) /\ Found(PathOf(t)).raised THEN 1
  ELSE IF HasElements(PathOf(t)) /\ TranslationRaised(t) THEN 1
  ELSE IF Reconstructs(t) /\ ~dry_run /\ files[PathOf(t)].write # "ok" THEN 1
  ELSE 0

\* The counts of a finished run, from the files, the flags and what the
\* translate calls did; neither max_workers nor the order of the steps
\* enters.
ExpectedCounts ==
  [files_scanned |-> Len(files),
   files_with_foreign_text |-> Cardinality({p \in 1..Len(files) : HasElements(p)}),
   files_translated |->
     Cardinality({t \in Tasks : /\ Reconstructs(t)
                                /\ ~dry_run
                                /\ files[PathOf(t)].write = "ok"}),
   elements_translated |->
     Sum([t \in Tasks |-> IF Reconstructs(t)
                          THEN Len(Found(PathOf(t)).elements) ELSE 0],
         Len(files_to_process)),
   files_skipped |-> Cardinality({p \in 1..Len(files) : ~Examined(p)}),
   errors |-> Sum([t \in Tasks |-> ErrorsOf(t)], Len(files_to_process))]

Counts(st) ==
  [files_scanned |-> st.files_scanned,
   files_with_foreign_text |-> st.files_with_foreign_text,
   files_translated |-> st.files_translated,
   elements_translated |-> st.elements_translated,
   files_skipped |-> st.files_skipped,
   errors |-> Len(st.errors)]

\* C6, as stated: after a run over K files of which M contain
\* foreign-script text, files_with_foreign_text is M and files_scanned is K
\* less the files the skip check filters out.
C6_AsStated ==
  returned =>
    /\ stats.files_with_foreign_text =
         Cardinality({p \in 1..Len(files) : contains_non_ascii(files[p].content)})
    /\ stats.files_scanned =
         Len(files) - Cardinality({p \in 1..Len(files) : should_skip_file(files[p])})

\* C6, amended: after a run over K files, files_scanned is K, the files
\* the skip check filters out included, and files_with_foreign_text is the
\* number of files that pass the skip check, are read, and for which the
\* configured extraction returns at least one element.
C6_StatsExactness ==
  returned =>
    /\ stats.files_scanned = Len(files)
    /\ stats.files_with_foreign_text =
         Cardinality({p \in 1..Len(files) : HasElements(p)})

\* A finished run over a file the skip check filters out and a file with
\* an element.
C6_Witness ==
  /\ returned
  /\ \E p \in 1..Len(files) : should_skip_file(files[p])
  /\ \E p \in 1..Len(files) : HasElements(p)

Failed(t) ==
  /\ task[t].pc = "done"
  /\ ErrorsOf(t) = 1

\* C8: when the processing of a file has failed and the run has returned,
\* stats.errors has an entry for the file, the file on disk holds its
\* pre-run content or the whole new content, never a part of it, and every
\* other file of the run was processed to completion.
C8_FailureIsolated ==
  returned =>
    \A t \in Tasks :
      Failed(t) =>
        /\ \E i \in 1..Len(stats.errors) : stats.errors[i].path = PathOf(t)
        /\ disk[PathOf(t)] \in {files[PathOf(t)].content, task[t].new_content}
        /\ \A u \in Tasks : task[u].pc = "done"

\* C9: when a translate call of a task has raised, the task still gets a
\* reply for every element, the element of the failed call keeps its
\* text, the file is reconstructed, process_file returns its result and,
\* unless in a dry run, the file is written.
C9_TranslationFailureIsSoft ==
  \A t \in Tasks :
    (task[t].pc = "done" /\ TranslationRaised(t)) =>
      /\ Len(task[t].replies) = Len(task[t].elements)
      /\ task[t].new_content =
           reconstruct_file(task[t].content,
                            TranslatedElements(task[t].elements, task[t].replies))
      /\ task[t].result = "result"
      /\ (~dry_run /\ files[PathOf(t)].write = "ok") =>
           disk[PathOf(t)] = task[t].new_content

\* C10: after a failed write, stats.errors has the error, files_translated
\* was not incremented for the file, process_file returned None, and the
\* file on disk holds its pre-run content.
C10_WriteFailureLeavesFile ==
  \A t \in Tasks :
    (\E i \in 1..Len(stats.errors) :
        stats.errors[i] = [path |-> PathOf(t), kind |-> "write"]) =>
      /\ task[t].result = "none"
      /\ stats.files_translated =
           Cardinality({u \in Tasks : task[u].pc = "done" /\ task[u].result = "result"})
      /\ disk[PathOf(t)] = files[PathOf(t)].content

\* ------------------------------------------------------------ interrupt

\* No task that is still queued when the interrupt has arrived is started.
NoStartAfterInterrupt ==
  cli.interrupted =>
    \A t \in DOMAIN task : task[t].pc = "queued" => task'[t].pc = "queued"

\* When main has ended after an interrupt, no task was cut short and the
\* statistics were printed.
InterruptedRunReports ==
  (cli.phase = "exited" /\ cli.interrupted) =>
    /\ \A t \in Tasks : task[t].pc \in {"queued", "done"}
    /\ cli.stats_printed

\* C11: on a user interrupt during a run the tasks that are running finish,
\* no task that had not started is started afterwards, and the statistics
\* gathered so far are still reported.
C11_InterruptStopsDispatch ==
  [][NoStartAfterInterrupt]_vars /\ []InterruptedRunReports

\* ---------------------------------------------------------- configuration

\* The command-line arguments merged over the loaded configuration.
MergedConfig == merge_with_args(cli.app_config, cli.args)

\* C12: the FileProcessor main builds gets dry_run, translate_all and
\* max_workers of the merged configuration, process_directory its
\* recursive, and with --dry-run given no file on disk is written.
C12_ProcessorGetsMergedConfig ==
  cli.phase = "running" =>
    /\ dry_run = MergedConfig.dry_run
    /\ translate_all = MergedConfig.translate_all
    /\ max_workers = MergedConfig.max_workers
    /\ cli.recursive = MergedConfig.recursive
    /\ cli.args.dry_run => \A p \in 1..Len(files) : disk[p] = files[p].content

\* ------------------------------------------------- reconstruction formats

\* The translation process_file pairs with an element of the content.
TxTranslation(element) == translate(element.text, tx.reply)

\* The length of the comment marker at a column of a line: # or // or /*.
MarkerLen(line, col) == IF line[col + 1] = Ch.hash THEN 1 ELSE 2

\* A comment's start line as the rule gives it: the line up to and
\* including the marker, one space, the translation.
CommentLine(element) ==
  Slice(TxLines[element.start_line + 1], 0,
        element.start_col + MarkerLen(TxLines[element.start_line + 1], element.start_col))
  \o <<Ch.sp>> \o TxTranslation(element)

\* C13: where the one element of a content is a comment (a line comment or a
\* block comment), the output is the content with the comment's start line
\* rewritten to: the line up to and including the marker at start_col, a
\* single space, the translated text.
C13_CommentFormat ==
  (tx.phase = "output" /\ Len(TxElements) = 1 /\ TxElements[1].type = COMMENT) =>
    tx.output = JoinLines(SetLine(TxLines, TxElements[1].start_line,
                                  CommentLine(TxElements[1])))

\* The delimiter a docstring element opens with: three double or single
\* quotes (Python), slash-star-star (Javadoc), three slashes (Rust).
DocOpen(element) == Slice(element.original_text, 0, 3)

\* The delimiter it closes with; a Rust doc comment ends with its line.
DocClose(element) ==
  IF DocOpen(element) \in {DQ3, SQ3} THEN DocOpen(element)
  ELSE IF DocOpen(element) = <<Ch.slash, Ch.star, Ch.star>> THEN <<Ch.star, Ch.slash>>
  ELSE << >>

\* The leading whitespace of a line.
Indent(line) == Slice(line, 0, Len(line) - Len(LStrip(line)))

EndsWith(s, pat) == StartsWith(s, Len(s) - Len(pat), pat)

LastElement == TxElements[Len(TxElements)]

\* C14: a reconstructed docstring (Python triple-quoted string, Javadoc
\* block, Rust doc comment) opens and closes with the delimiters of the
\* original and keeps the opening line's indentation: where the docstring
\* spans the whole content from its indentation on and is the element
\* applied last, the output
\* starts with the first line's indentation and the opening delimiter and
\* ends with the closing delimiter.
C14_DocstringFormat ==
  (/\ tx.phase = "output"
   /\ Len(TxElements) > 0
   /\ LastElement.type = DOCSTRING
   /\ LastElement.end_line = Len(TxLines) - 1
   /\ LastElement.start_col = Len(Indent(TxLines[1]))
   /\ \A i \in 1..Len(TxElements) : TxElements[i].start_line = 0) =>
    /\ StartsWith(tx.output, 0, Indent(TxLines[1]) \o DocOpen(LastElement))
    /\ EndsWith(tx.output, DocClose(LastElement))

\* The line with the element's own span [start_col, end_col) replaced by
\* quote, translation, quote, the quote being the character the original
\* line has at start_col.
ReplaceSpan(line, original_line, element, translation) ==
  Slice(line, 0, element.start_col)
    \o <<original_line[element.start_col + 1]>> \o translation
    \o <<original_line[element.start_col + 1]>>
    \o Slice(line, element.end_col, Len(line))

\* Every one of the first k elements replaced at its original span: the
\* spans are taken from right to left, so that a replacement never moves
\* a span still to be replaced.
RECURSIVE ReplaceSpans(_, _, _, _)
ReplaceSpans(lines, original_lines, elements, k) ==
  IF k = Len(elements) THEN lines
  ELSE SetLine(ReplaceSpans(lines, original_lines, elements, k + 1),
               elements[k + 1].start_line,
               ReplaceSpan(ReplaceSpans(lines, original_lines, elements, k + 1)
                             [elements[k + 1].start_line + 1],
                           original_lines[elements[k + 1].start_line + 1],
                           elements[k + 1],
                           TxTranslation(elements[k + 1])))

\* The elements are string literals with disjoint spans inside their
\* lines, listed from left to right and from top to bottom.
StringSpansInOrder(elements, lines) ==
  /\ \A i \in 1..Len(elements) :
       /\ elements[i].type = STRING_LITERAL
       /\ elements[i].start_line < Len(lines)
       /\ elements[i].start_col < elements[i].end_col
       /\ elements[i].end_col <= Len(lines[elements[i].start_line + 1])
  /\ \A i, j \in 1..Len(elements) :
       i < j => \/ elements[i].start_line < elements[j].start_line
                \/ /\ elements[i].start_line = elements[j].start_line
                   /\ elements[i].end_col <= elements[j].start_col

\* C15: string literal reconstruction is positional: each element's
\* original span on its line is replaced by quote + translation + quote,
\* the quote being the character at start_col in the original line; when
\* a line holds several string literals each is replaced at its own
\* original span and nothing else of the line is rewritten.
C15_StringsPositional ==
  (tx.phase = "output" /\ Len(TxElements) > 0
     /\ StringSpansInOrder(TxElements, TxLines)) =>
    tx.output = JoinLines(ReplaceSpans(TxLines, TxLines, TxElements, 0))

\* A file with a denylisted extension or with no registered language.
Unsupported(file) ==
  \/ Lower(file.suffix) \in SKIP_EXTENSIONS
  \/ detect_language(file) = NoLanguage

\* C16: a file with a denylisted extension or with no registered language
\* is skipped silently: its task never reads it (neither a failed read
\* nor a content), never calls the translator, never writes it, and no
\* entry of stats.errors names it.
C16_UnsupportedSkippedSilently ==
  \A t \in Tasks :
    Unsupported(files[PathOf(t)]) =>
      /\ task[t].pc \in {"queued", "started", "done"}
      /\ task[t].result \in {"pending", "none"}
      /\ task[t].content = << >>
      /\ task[t].replies = << >>
      /\ disk[PathOf(t)] = files[PathOf(t)].content
      /\ \A i \in 1..Len(stats.errors) : stats.errors[i].path # PathOf(t)

\* A denylisted file and a file of no language have both been processed,
\* and counted as skipped.
C16_Witness ==
  /\ \E t \in Tasks : /\ task[t].pc = "done"
                      /\ Lower(files[PathOf(t)].suffix) \in SKIP_EXTENSIONS
  /\ \E t \in Tasks : /\ task[t].pc = "done"
                      /\ detect_language(files[PathOf(t)]) = NoLanguage
                      /\ Lower(files[PathOf(t)].suffix) \notin SKIP_EXTENSIONS
  /\ stats.files_skipped = 2

\* ------------------------------------- process_directory: the file listing

SKIP_DIRS ==
  {".git", ".svn", ".hg", "__pycache__", "node_modules", "venv", ".venv",
   "dist", "build"}

\* The name of a directory entry, as pathlib splits it: stem and suffix.
Name(stem, suffix) == [stem |-> stem, suffix |-> suffix]

\* d in self.SKIP_DIRS: no name of the skip set has a suffix.
InSkipDirs(name) == name.suffix = "" /\ name.stem \in SKIP_DIRS

\* The names the directories and the files of a tree have.
DirNames == {Name("normal", ""), Name("node_modules", "")}

FileNames == {Name("a", ".py"), Name("b", ".txt")}

\* How deep the directories of a tree nest, and how many files it has.
MaxDepth == 2

MaxEntries == 2

\* A path is the sequence of the names from the root directory down.
RECURSIVE DirPaths(_)
DirPaths(depth) ==
  IF depth = 0 THEN {<< >>}
  ELSE DirPaths(depth - 1)
         \cup {Append(p, d) : p \in {q \in DirPaths(depth - 1) : Len(q) = depth - 1},
                              d \in DirNames}

FilePaths == {Append(p, f) : p \in DirPaths(MaxDepth), f \in FileNames}

\* A tree is the set of the paths of its files.
RECURSIVE Trees(_)
Trees(n) ==
  IF n = 0 THEN {{}}
  ELSE Trees(n - 1) \cup {tree \cup {p} : tree \in Trees(n - 1), p \in FilePaths}

IsPrefix(p, q) == Len(p) <= Len(q) /\ SubSeq(q, 1, Len(p)) = p

\* What os.walk yields for root: the names of its directories, its files.
Subdirs(tree, root) ==
  {f[Len(root) + 1] : f \in {g \in tree : IsPrefix(root, g) /\ Len(g) > Len(root) + 1}}

FilesIn(tree, root) == {f \in tree : IsPrefix(root, f) /\ Len(f) = Len(root) + 1}

\* The order in which the file system lists a set of entries: one order,
\* the same each time.
RECURSIVE Listed(_)
Listed(entries) ==
  IF entries = {} THEN << >>
  ELSE <<CHOOSE e \in entries : TRUE>>
         \o Listed(entries \ {CHOOSE e \in entries : TRUE})

\* directory.glob(pattern), for the patterns of the model.
glob(tree, pattern) ==
  IF pattern = "*"
  THEN FilesIn(tree, << >>) \cup {<<d>> : d \in Subdirs(tree, << >>)}
  ELSE IF pattern = "*.py"
  THEN {f \in FilesIn(tree, << >>) : f[Len(f)].suffix = ".py"}
  ELSE {f \in tree : f[Len(f)].suffix = ".py"}

\* The file_patterns arguments: none, and lists of "*.py" and "**/*.py".
PatternLists == {<< >>, <<"*.py">>, <<"**/*.py">>, <<"*.py", "**/*.py">>}

\* Lines 304-307: the matches of each pattern, one pattern after the other.
RECURSIVE filtered(_, _)
filtered(tree, file_patterns) ==
  IF file_patterns = << >> THEN << >>
  ELSE Listed(glob(tree, Head(file_patterns))) \o filtered(tree, Tail(file_patterns))

\* Lines 289-290, 300-301: the walk begins at the directory, or the
\* directory's own entries are listed.
List ==
  /\ listing.phase = "start"
  /\ listing' =
       IF listing.recursive
       THEN [listing EXCEPT !.phase = "walk", !.stack = << << >> >>]
       ELSE [listing EXCEPT !.phase = "filter",
                            !.files_to_process = Listed(glob(listing.tree, "*"))]
  /\ UNCHANGED <<files, dry_run, translate_all, max_workers, files_to_process,
                 disk, stats, task, collected, returned, tx, cli, batch, sync>>

\* Lines 292-298: one step of os.walk, top down: the directories of the
\* skip set are taken out of dirs, the files of root are appended, and the
\* walk goes on into the directories that are left.
Walk ==
  /\ listing.phase = "walk"
  /\ listing.stack # << >>
  /\ listing' =
       [listing EXCEPT
          !.files_to_process = @ \o Listed(FilesIn(listing.tree, Head(listing.stack))),
          !.stack = Listed({Append(Head(listing.stack), d) :
                              d \in {e \in Subdirs(listing.tree, Head(listing.stack)) :
                                       ~InSkipDirs(e)}})
                      \o Tail(@)]
  /\ UNCHANGED <<files, dry_run, translate_all, max_workers, files_to_process,
                 disk, stats, task, collected, returned, tx, cli, batch, sync>>

\* Lines 304-307, after the walk: with file_patterns the list is replaced
\* by the matches of the patterns.
Filter ==
  /\ \/ listing.phase = "filter"
     \/ listing.phase = "walk" /\ listing.stack = << >>
  /\ listing' =
       [listing EXCEPT
          !.phase = "submit",
          !.files_to_process = IF listing.file_patterns # << >>
                               THEN filtered(listing.tree, listing.file_patterns)
                               ELSE @]
  /\ UNCHANGED <<files, dry_run, translate_all, max_workers, files_to_process,
                 disk, stats, task, collected, returned, tx, cli, batch, sync>>

\* Lines 313-316: process_file is submitted for the next path of the list.
Submit ==
  /\ listing.phase = "submit"
  /\ listing.submitted < Len(listing.files_to_process)
  /\ listing' = [listing EXCEPT !.submitted = @ + 1]
  /\ UNCHANGED <<files, dry_run, translate_all, max_workers, files_to_process,
                 disk, stats, task, collected, returned, tx, cli, batch, sync>>

DirInit ==
  /\ \E tree \in Trees(MaxEntries), recursive \in BOOLEAN, file_patterns \in PatternLists :
       listing = [phase |-> "start", tree |-> tree, recursive |-> recursive,
                  file_patterns |-> file_patterns, stack |-> << >>,
                  files_to_process |-> << >>, submitted |-> 0]
  /\ files = << >>
  /\ dry_run = TRUE
  /\ translate_all = FALSE
  /\ max_workers = 1
  /\ files_to_process = << >>
  /\ disk = << >>
  /\ stats = NewStats
  /\ task = << >>
  /\ collected = {}
  /\ returned = FALSE
  /\ tx = TxIdle
  /\ cli = CliIdle
  /\ batch = BatchIdle
  /\ sync = SyncIdle

DirNext == List \/ Walk \/ Filter \/ Submit

DirSpec == DirInit /\ [][DirNext]_vars

\* The paths process_file has been submitted for.
Dispatched == SubSeq(listing.files_to_process, 1, listing.submitted)

\* The path has a directory whose name is in the skip set.
UnderSkipDir(path) == \E k \in 1..(Len(path) - 1) : InSkipDirs(path[k])

\* C17: process_directory never dispatches a file that lies under a
\* directory whose name is in the skip set, whatever the tree and the
\* file_patterns argument.
C17_SkipDirsNeverDispatched ==
  listing.phase = "submit" =>
    \A i \in 1..Len(Dispatched) : ~UnderSkipDir(Dispatched[i])

\* main has printed the statistics and left: the run has completed.
RunCompleted == cli.phase = "exited" /\ cli.stats_printed

\* C18: the exit status of a completed run tells whether per-file errors
\* were recorded: it is the status of a clean run (0) exactly when
\* stats.errors is empty; and no per-file error aborts the run: every
\* file of a completed run has been processed.
C18_ExitStatusReflectsErrors ==
  RunCompleted =>
    /\ cli.exit_status = 0 <=> stats.errors = << >>
    /\ \A t \in Tasks : task[t].pc = "done"

\* ------------------------------------- LocalTranslator.translate_batch

\* results = [None] * len(texts): the entry of a result not yet stored.
None == <<-1>>

\* A max_text_length small enough for the texts of the model to exceed.
ShortTextLength == 2

TranslationConfigs ==
  {TranslationConfig(max_text_length), TranslationConfig(ShortTextLength)}

\* The texts a batch is made of: empty, blank, short, and longer than
\* ShortTextLength.
BatchTexts == {<< >>, <<Ch.sp, Ch.nl>>, <<Ch.zh>>, <<Ch.zh, Ch.a, Ch.zh>>}

MaxTexts == 2

BatchWorkers == {1, 2}

\* A submitted call of self.translate: its place in the pool, the engine's
\* reply, whether the engine was called, and how the call ended.
NewCall ==
  [pc |-> "queued", reply |-> EngineError, engine_called |-> FALSE,
   raised |-> FALSE, value |-> None]

Calls == DOMAIN batch.calls

\* Lines 158-170: no texts, no work; else results is allocated and one call
\* of translate is submitted for each text.
translate_batch ==
  /\ batch.phase = "start"
  /\ batch' =
       IF batch.texts = << >>
       THEN [batch EXCEPT !.phase = "returned"]
       ELSE [batch EXCEPT !.phase = "running",
                          !.results = [i \in DOMAIN batch.texts |-> None],
                          !.calls = [i \in DOMAIN batch.texts |-> NewCall]]
  /\ UNCHANGED <<files, dry_run, translate_all, max_workers, files_to_process,
                 disk, stats, task, collected, returned, tx, cli, listing, sync>>

\* A pool worker takes the oldest queued call.
BatchStart(i) ==
  /\ batch.phase = "running"
  /\ batch.calls[i].pc = "queued"
  /\ \A j \in Calls : j < i => batch.calls[j].pc # "queued"
  /\ Cardinality({j \in Calls : batch.calls[j].pc = "running"}) < batch.max_workers
  /\ batch' = [batch EXCEPT !.calls[i].pc = "running"]
  /\ UNCHANGED <<files, dry_run, translate_all, max_workers, files_to_process,
                 disk, stats, task, collected, returned, tx, cli, listing, sync>>

\* translate, lines 55-91, for the i-th text: it returns, or it raises.
BatchTranslate(i) ==
  /\ batch.phase = "running"
  /\ batch.calls[i].pc = "running"
  /\ \E reply \in RunReplies :
       batch' = [batch EXCEPT
         !.calls[i] =
            [pc |-> "done", reply |-> reply,
             engine_called |-> Strip(batch.texts[i]) # << >>,
             raised |-> translate_raises(batch.texts[i], reply),
             value |-> IF translate_raises(batch.texts[i], reply) THEN None
                       ELSE LocalTranslator_translate(batch.config, batch.texts[i], reply)]]
  /\ UNCHANGED <<files, dry_run, translate_all, max_workers, files_to_process,
                 disk, stats, task, collected, returned, tx, cli, listing, sync>>

\* The result stored for a finished call, lines 175-179.
stored(b, i) == [b.results EXCEPT ![i] =
                   IF b.calls[i].raised THEN b.texts[i] ELSE b.calls[i].value]

\* Lines 173-180: as_completed yields a finished call, in any order.
BatchCollect(i) ==
  /\ batch.phase = "running"
  /\ batch.calls[i].pc = "done"
  /\ i \notin batch.collected
  /\ batch' = [batch EXCEPT !.results = stored(batch, i),
                            !.collected = @ \cup {i}]
  /\ UNCHANGED <<files, dry_run, translate_all, max_workers, files_to_process,
                 disk, stats, task, collected, returned, tx, cli, listing, sync>>

\* Line 181.
BatchReturn ==
  /\ batch.phase = "running"
  /\ batch.collected = Calls
  /\ batch' = [batch EXCEPT !.phase = "returned"]
  /\ UNCHANGED <<files, dry_run, translate_all, max_workers, files_to_process,
                 disk, stats, task, collected, returned, tx, cli, listing, sync>>

RECURSIVE TextLists(_)
TextLists(n) ==
  IF n = 0 THEN {<< >>}
  ELSE TextLists(n - 1)
         \cup {Append(texts, text) : texts \in {l \in TextLists(n - 1) : Len(l) = n - 1},
                                     text \in BatchTexts}

BatchInit ==
  /\ \E config \in TranslationConfigs, texts \in TextLists(MaxTexts), workers \in BatchWorkers :
       batch = [phase |-> "start", config |-> config, texts |-> texts,
                max_workers |-> workers, calls |-> << >>, results |-> << >>,
                collected |-> {}]
  /\ files = << >>
  /\ dry_run = TRUE
  /\ translate_all = FALSE
  /\ max_workers = 1
  /\ files_to_process = << >>
  /\ disk = << >>
  /\ stats = NewStats
  /\ task = << >>
  /\ collected = {}
  /\ returned = FALSE
  /\ tx = TxIdle
  /\ cli = CliIdle
  /\ listing = ListingIdle
  /\ sync = SyncIdle

BatchNext ==
  \/ translate_batch
  \/ \E i \in Calls : BatchStart(i) \/ BatchTranslate(i) \/ BatchCollect(i)
  \/ BatchReturn

BatchSpec == BatchInit /\ [][BatchNext]_vars

\* The engine call of the i-th translate call failed.
EngineFailed(i) == batch.calls[i].engine_called /\ batch.calls[i].reply.raised

\* C19: translate does not raise when the engine call fails, and then it
\* returns the input text unchanged, whatever the text's length; an empty
\* or blank text is returned unchanged and the engine is not called.
C19_TranslateFallsBackToInput ==
  \A i \in Calls :
    batch.calls[i].pc = "done" =>
      /\ EngineFailed(i) =>
           ~batch.calls[i].raised /\ batch.calls[i].value = batch.texts[i]
      /\ Strip(batch.texts[i]) = << >> =>
           /\ ~batch.calls[i].engine_called
           /\ ~batch.calls[i].raised
           /\ batch.calls[i].value = batch.texts[i]

\* The translation of the i-th text: the text itself when it is blank or
\* when its translation failed, else the engine's answer, stripped.
TranslationOf(i) ==
  IF Strip(batch.texts[i]) = << >> \/ batch.calls[i].reply.raised
  THEN batch.texts[i]
  ELSE Strip(batch.calls[i].reply.response)

\* C20: translate_batch returns a list as long as its input whose i-th
\* entry is the translation of the i-th text, or that text itself if its
\* translation failed, in whatever order the calls complete.
C20_BatchKeepsInputOrder ==
  batch.phase = "returned" =>
    /\ Len(batch.results) = Len(batch.texts)
    /\ \A i \in DOMAIN batch.texts : batch.results[i] = TranslationOf(i)

\* The file is readable and supported and its extraction finds no element.
NoElements(p) ==
  Examined(p) /\ ~Found(p).raised /\ Len(Found(p).elements) = 0

\* The steps of process_file for such a file: the first counts the file as
\* scanned and nothing else, the second ends the call with None and leaves
\* the statistics and the disk as they are.
EmptyFileSteps ==
  \A t \in DOMAIN task :
    /\ (task[t].pc = "queued" /\ task'[t].pc # "queued" /\ NoElements(PathOf(t))) =>
         /\ task'[t].pc = "started"
         /\ stats' = [stats EXCEPT !.files_scanned = @ + 1]
         /\ disk' = disk
    /\ (task[t].pc = "started" /\ task'[t].pc # "started" /\ NoElements(PathOf(t))) =>
         /\ task'[t].pc = "done"
         /\ task'[t].result = "none"
         /\ stats' = stats
         /\ disk' = disk

\* Such a file, once processed: no translate call, no write, no error.
EmptyFileUntouched ==
  \A t \in Tasks :
    (task[t].pc = "done" /\ NoElements(PathOf(t))) =>
      /\ task[t].result = "none"
      /\ task[t].replies = << >>
      /\ disk[PathOf(t)] = files[PathOf(t)].content
      /\ \A i \in 1..Len(stats.errors) : stats.errors[i].path # PathOf(t)

\* C21: when the extraction finds no elements in a readable, supported
\* file, process_file returns None having changed only files_scanned: no
\* translate call is made, nothing is written, and the other counters and
\* the errors are unchanged.
C21_NoElementsOnlyScanned == [][EmptyFileSteps]_vars /\ []EmptyFileUntouched

\* A run of such a file alone has ended: one file scanned, nothing else.
C21_Witness ==
  /\ Len(files) = 1
  /\ NoElements(1)
  /\ returned
  /\ task[1].result = "none"
  /\ Counts(stats) = [Counts(NewStats) EXCEPT !.files_scanned = 1]

\* Position (line1, col1) lies before position (line2, col2) in the text.
Before(line1, col1, line2, col2) ==
  line1 < line2 \/ (line1 = line2 /\ col1 < col2)

\* The ranges of two elements, each from its start to its end, overlap.
Overlap(a, b) ==
  /\ Before(a.start_line, a.start_col, b.end_line, b.end_col)
  /\ Before(b.start_line, b.start_col, a.end_line, a.end_col)

\* C22: no two elements returned by one extraction pass, conservative or
\* aggressive, cover overlapping ranges of the source text, in every
\* supported language.
C22_ElementsDisjoint ==
  (tx.phase \in {"extracted", "output"} /\ ~tx.extraction.raised) =>
    \A i, j \in 1..Len(TxElements) : i < j => ~Overlap(TxElements[i], TxElements[j])

\* ------------------------------------- ProcessingStats and its lock

notSync ==
  <<files, dry_run, translate_all, max_workers, files_to_process, disk, stats,
    task, collected, returned, tx, cli, listing, batch>>

\* The threads of a run: two pool workers, each in one call of process_file,
\* and the thread of process_directory, in the as_completed loop.
Workers == {"worker1", "worker2"}

Collector == "collector"

Free == "free"

\* A worker in one call of process_file: the ProcessingStats methods it
\* has still to call (each named by the field it updates), where it stands
\* in the current one, the counter value it has loaded, and whether the
\* call of process_file ends with an exception.
Worker(methods, raises) ==
  [pc |-> "idle", methods |-> methods, loaded |-> 0, raises |-> raises]

\* The calls of process_file: a skipped file, an unreadable file, a file
\* without elements, a file whose extraction raises, a file whose
\* translation raises, a translated file, a file whose write fails.
ProcessFileCalls ==
  {Worker(<<"files_scanned", "files_skipped">>, FALSE),
   Worker(<<"files_scanned", "files_skipped", "errors">>, FALSE),
   Worker(<<"files_scanned">>, FALSE),
   Worker(<<"files_scanned">>, TRUE),
   Worker(<<"files_scanned", "files_with_foreign_text">>, TRUE),
   Worker(<<"files_scanned", "files_with_foreign_text", "elements_translated",
            "files_translated">>, FALSE),
   Worker(<<"files_scanned", "files_with_foreign_text", "elements_translated",
            "errors">>, FALSE)}

\* The worker's current method, the field of the stats it updates.
Field(th) == Head(sync.threads[th].methods)

\* with self._lock: the lock is taken when it is free.
Acquire(th) ==
  /\ sync.phase = "running"
  /\ sync.threads[th].pc = "idle"
  /\ sync.threads[th].methods # << >>
  /\ sync.lock = Free
  /\ sync' = [sync EXCEPT !.lock = th, !.threads[th].pc = "locked"]
  /\ UNCHANGED notSync

\* self.counter += n, first half: the counter is loaded.
Load(th) ==
  /\ sync.phase = "running"
  /\ sync.threads[th].pc = "locked"
  /\ Field(th) # "errors"
  /\ sync' = [sync EXCEPT !.threads[th].pc = "loaded",
                          !.threads[th].loaded = sync.stats[Field(th)]]
  /\ UNCHANGED notSync

\* self.counter += n, second half: the sum is stored.
Store(th) ==
  /\ sync.phase = "running"
  /\ sync.threads[th].pc = "loaded"
  /\ sync' = [sync EXCEPT !.threads[th].pc = "stored",
                          !.stats[Field(th)] = sync.threads[th].loaded + 1,
                          !.calls[Field(th)] = @ + 1]
  /\ UNCHANGED notSync

\* add_error, line 53: self.errors.append(error), one step under the
\* interpreter lock.
AddError(th) ==
  /\ sync.phase = "running"
  /\ sync.threads[th].pc = "locked"
  /\ Field(th) = "errors"
  /\ sync' = [sync EXCEPT !.threads[th].pc = "stored",
                          !.stats.errors = Append(@, th),
                          !.calls.errors = @ + 1]
  /\ UNCHANGED notSync

\* The end of the with block: the lock is released and the method returns.
Release(th) ==
  /\ sync.phase = "running"
  /\ sync.threads[th].pc = "stored"
  /\ sync' = [sync EXCEPT !.lock = Free,
                          !.threads[th].pc = "idle",
                          !.threads[th].methods = Tail(@)]
  /\ UNCHANGED notSync

\* processor.py lines 324-325: the future of a worker has raised, and the
\* as_completed loop appends to self.stats.errors itself.
CollectorAppend(th) ==
  /\ sync.phase = "running"
  /\ sync.threads[th].methods = << >>
  /\ sync.threads[th].raises
  /\ th \notin sync.handled
  /\ sync' = [sync EXCEPT !.handled = @ \cup {th},
                          !.stats.errors = Append(@, Collector),
                          !.calls.errors = @ + 1]
  /\ UNCHANGED notSync

LockInit ==
  /\ \E threads \in [Workers -> ProcessFileCalls] :
       sync = [phase |-> "running", lock |-> Free, threads |-> threads,
               handled |-> {}, stats |-> NewStats, calls |-> Counts(NewStats)]
  /\ files = << >>
  /\ dry_run = TRUE
  /\ translate_all = FALSE
  /\ max_workers = 2
  /\ files_to_process = << >>
  /\ disk = << >>
  /\ stats = NewStats
  /\ task = << >>
  /\ collected = {}
  /\ returned = FALSE
  /\ tx = TxIdle
  /\ cli = CliIdle
  /\ listing = ListingIdle
  /\ batch = BatchIdle

LockNext ==
  \E th \in Workers :
    \/ Acquire(th)
    \/ Load(th)
    \/ Store(th)
    \/ AddError(th)
    \/ Release(th)
    \/ CollectorAppend(th)

LockSpec == LockInit /\ [][LockNext]_vars

\* The step changes the shared ProcessingStats.
Mutates == sync'.stats # sync.stats

\* The thread that takes the step: a worker moves in its method, the
\* collecting thread handles a future.
Moves(th) ==
  IF th = Collector THEN sync'.handled # sync.handled
  ELSE sync'.threads[th] # sync.threads[th]

\* The thread that mutates the stats holds the lock.
MutationHoldsLock ==
  \A th \in Workers \cup {Collector} : (Mutates /\ Moves(th)) => sync.lock = th

\* No update is lost: when no method is under way, every counter and the
\* error list have grown by the calls made.
NoUpdateLost ==
  (sync.phase = "running" /\ \A th \in Workers : sync.threads[th].pc = "idle") =>
    Counts(sync.stats) = sync.calls

\* C23: every mutation of the shared ProcessingStats (each counter
\* increment and each append to errors, by a worker in process_file or by
\* the collecting thread in process_directory) is made while holding the
\* stats lock, so that no update is lost.
C23_StatsMutatedUnderLock == [][MutationHoldsLock]_vars /\ []NoUpdateLost

\* The tasks in flight: process_file has begun and has not ended.
InFlight == {t \in Tasks : Running(t)}

\* The tasks inside the translation loop of lines 150-153.
Translating == {t \in Tasks : task[t].pc = "translate"}

\* C24: at every moment of a run at most max_workers process_file tasks
\* are in flight, and hence at most max_workers calls of the translator
\* are outstanding.
C24_AtMostMaxWorkersInFlight ==
  /\ Cardinality(InFlight) <= max_workers
  /\ Cardinality(Translating) <= max_workers

\* The pool is full, with a worker inside the translation loop, and a
\* task is waiting.
C24_Witness ==
  /\ Cardinality(InFlight) = max_workers
  /\ Translating # {}
  /\ \E t \in Tasks : task[t].pc = "queued"

\* The pool hands the t-th submitted file to a worker.
Taken(t) == t \in Tasks /\ Start(t)

\* A worker is inside process_file for the t-th submitted file.  Each
\* position of process_file has a step the worker can take.
InProcessFile(t) == t \in Tasks /\ Running(t)

\* A run in which at most one worker blocks inside process_file, at a
\* moment and for a time of its own (on file I/O, inside a translate call,
\* or for ever): a free worker takes the oldest queued file, and a worker
\* that does not block leaves process_file.
FairSpec ==
  /\ Init
  /\ [][Next]_vars
  /\ \A t \in 1..NumFiles : WF_vars(Taken(t))
  /\ \E b \in 1..NumFiles :
       \A t \in (1..NumFiles) \ {b} : []<>~InProcessFile(t)

\* The t-th file, if the run has one, has been processed.
Completed(t) == t \in Tasks => task[t].pc = "done"

\* C25: with max_workers >= 2 a blocked worker does not stall the others:
\* of any two files of the run at least one is eventually taken and
\* completed, so every file but the blocked worker's is.
C25_BlockedWorkerDoesNotStall ==
  max_workers >= 2 =>
    \A t, u \in 1..NumFiles : t # u => (<>Completed(t) \/ <>Completed(u))

\* A worker is still inside process_file for the first file while the
\* last file of the run has been completed.
C25_Witness ==
  /\ max_workers >= 2
  /\ Len(files) >= 2
  /\ Running(1)
  /\ task[Len(files)].pc = "done"

\* The (element, translation) pairs of the run, in the order in which the
\* reconstruction applies them.
TxSorted ==
  SortedElements([i \in 1..Len(TxElements) |->
                    [element |-> TxElements[i], translation |-> TxTranslation(TxElements[i])]])

\* The lines at the moment the k-th splice is applied.
LinesBefore(k) == ApplyAll(TxLines, SubSeq(TxSorted, 1, k - 1))

\* The line ranges of the elements are pairwise disjoint.
DisjointLineRanges ==
  \A i, j \in 1..Len(TxElements) :
    i # j => \/ TxElements[i].end_line < TxElements[j].start_line
             \/ TxElements[j].end_line < TxElements[i].start_line

\* The lines at the element's recorded indices hold their original content.
StillOriginal(lines, element) ==
  /\ element.end_line < Len(lines)
  /\ \A i \in element.start_line..element.end_line : lines[i + 1] = TxLines[i + 1]

\* C26: the splices are applied in descending start_line order, so that for
\* elements with pairwise disjoint line ranges the lines at an element's
\* recorded indices [start_line, end_line] still hold their original
\* content at the moment its splice is applied, also after a multi-line
\* docstring splice applied earlier has changed the number of lines.
C26_SplicesMeetOriginalLines ==
  (tx.phase = "output" /\ DisjointLineRanges) =>
    \A k \in 1..Len(TxSorted) : StillOriginal(LinesBefore(k), TxSorted[k].element)

\* Two elements on disjoint lines, the lower one a multi-line docstring
\* whose splice, applied first, has changed the number of lines.
C26_Witness ==
  /\ tx.phase = "output"
  /\ DisjointLineRanges
  /\ Len(TxSorted) = 2
  /\ TxSorted[1].element.type = DOCSTRING
  /\ TxSorted[1].element.start_line < TxSorted[1].element.end_line
  /\ Len(LinesBefore(2)) # Len(TxLines)

\* ------------------------------------------------ positions of an element

\* The offset in the content of column col of line line.
Offset(lines, line, col) == LineStart(lines, line) + col

Quotes == {Ch.dq, Ch.sq, Ch.bt}

\* The text the pattern matched begins at the element's position: a block
\* or docstring match is the element's original_text, a line comment begins
\* with the language's marker, a string with its quote and its text.
MatchedTextAt(content, lines, language, element) ==
  IF element.type = STRING_LITERAL
  THEN /\ Offset(lines, element.start_line, element.start_col) < Len(content)
       /\ content[Offset(lines, element.start_line, element.start_col) + 1] \in Quotes
       /\ StartsWith(content, Offset(lines, element.start_line, element.start_col) + 1,
                     element.text)
  ELSE \/ StartsWith(content, Offset(lines, element.start_line, element.start_col),
                     element.original_text)
       \/ /\ element.original_text = LineOr(lines, element.start_line)
          /\ StartsWith(content, Offset(lines, element.start_line, element.start_col),
                        PATTERNS[language].line_comment.marker)

WellPlaced(content, lines, language, element) ==
  /\ 0 <= element.start_line
  /\ element.start_line <= element.end_line
  /\ element.end_line < Len(lines)
  /\ 0 <= element.start_col
  /\ element.start_col <= Len(lines[element.start_line + 1])
  /\ element.start_line =
       CountNl(content, Offset(lines, element.start_line, element.start_col))
  /\ MatchedTextAt(content, lines, language, element)

\* C27: every extracted element lies within the lines of the content, its
\* start_line is the number of newlines before the start of its match, and
\* the matched text begins at column start_col of that line.
C27_ElementPositions ==
  (tx.phase \in {"extracted", "output"} /\ ~tx.extraction.raised) =>
    \A i \in 1..Len(TxElements) :
      WellPlaced(tx.content, TxLines, tx.language, TxElements[i])

\* An element that begins after the first column of a line below the first.
C27_Witness ==
  /\ tx.phase = "extracted"
  /\ ~tx.extraction.raised
  /\ \E i \in 1..Len(TxElements) :
       /\ TxElements[i].start_line > 0
       /\ TxElements[i].start_col > 0
       /\ WellPlaced(tx.content, TxLines, tx.language, TxElements[i])

\* ------------------------------------------- the statistics after return

AllFinished ==
  /\ collected = Tasks
  /\ \A t \in Tasks : task[t].pc = "done"
  /\ stats.files_scanned = Len(files_to_process)

StatsFinal == returned => stats' = stats

\* C28: process_directory returns only after every submitted task has
\* finished and been collected; once it has returned the statistics do not
\* change any more, and they count every dispatched file.
C28_StatsFinalAfterReturn == [](returned => AllFinished) /\ [][StatsFinal]_vars

\* A run of NumFiles files has returned, one of them written back.
C28_Witness ==
  /\ returned
  /\ Len(files_to_process) = NumFiles
  /\ stats.files_scanned = NumFiles
  /\ stats.files_translated >= 1

\* ------------------------------------------- consistency of the counters

CountersConsistent ==
  /\ stats.files_translated <= stats.files_with_foreign_text
  /\ stats.files_with_foreign_text + stats.files_skipped <= stats.files_scanned

CountersGrow ==
  /\ stats'.files_scanned >= stats.files_scanned
  /\ stats'.files_with_foreign_text >= stats.files_with_foreign_text
  /\ stats'.files_translated >= stats.files_translated
  /\ stats'.elements_translated >= stats.elements_translated
  /\ stats'.files_skipped >= stats.files_skipped
  /\ Len(stats'.errors) >= Len(stats.errors)

\* C29: in every state of a run files_translated <= files_with_foreign_text
\* and files_with_foreign_text + files_skipped <= files_scanned, and no
\* step decreases or resets a counter.
C29_CountersConsistent == []CountersConsistent /\ [][CountersGrow]_vars

\* One file has been written back and another skipped.
C29_Witness ==
  /\ stats.files_translated >= 1
  /\ stats.files_skipped >= 1
  /\ CountersConsistent

\* C30: within one run of process_directory no file path is submitted to
\* the worker pool twice, whatever the tree and the file_patterns list,
\* patterns that match the same file included.
C30_EachPathSubmittedOnce ==
  \A i, j \in 1..Len(Dispatched) : i # j => Dispatched[i] # Dispatched[j]

====
